---- MODULE Spec2Model ----
(***************************************************************************)
(* Model of the NMT 2026 exam-preparation application:                     *)
(*   - the content-generation client (services/geminiService),             *)
(*   - the session/view-state controller (App),                            *)
(*   - the quiz runner (components/QuizRunner),                            *)
(*   - the results scorer (components/ResultsView),                        *)
(*   - the study view (components/StudyView) and the chat view             *)
(*     (components/ChatView).                                              *)
(* Eight specifications share the module:                                  *)
(*   SpecGen     the generation client applied to bounded service replies  *)
(*   SpecJoin    the simulation's joined sub-requests settling one by one  *)
(*   Spec        the controller with its in-flight requests and the runner *)
(*   SpecRunner  one quiz runner on one session                            *)
(*   SpecResults the results scorer applied to bounded completed sessions  *)
(*   SpecStudy   the study view with its notes requests                    *)
(*   SpecChat    the chat view with its sends and clears                   *)
(*   SpecSpeech  the speech of a view with its speech requests             *)
(***************************************************************************)
EXTENDS Integers, Sequences, FiniteSets, TLC

VARIABLES
    \* --- generation client (SpecGen) ---
    resps,          \* the service's replies to the sub-requests of one call
    genOp,          \* which exported function was called ("none" before the call)
    genResult,      \* what the call settled with
    join,           \* the Promise.all of a call whose sub-requests settle one by one
    \* --- controller (App) ---
    appState,       \* AppState
    selectedSubject,\* Subject or NoSubject
    session,        \* QuizSession or NoSession
    simMode,        \* "mixed" | "subject"
    simSubject,     \* Subject
    pending,        \* in-flight generation requests, oldest first
    crashed,        \* a render threw and React removed the tree
    \* --- quiz runner (QuizRunner) ---
    mounted,        \* a QuizRunner instance is mounted
    currentQuestionIndex,
    answers,
    timeLeft,
    timerOn,        \* the interval of the mount effect is registered
    mountSession,   \* the session prop of the runner's first render
    completions,    \* onComplete calls made by the mounted runner
    handedOver,     \* arguments of the last onComplete call
    \* --- results scorer (SpecResults) ---
    stats,          \* value of the scoring useMemo
    \* --- study view (StudyView) ---
    selectedTopic,  \* topic whose notes page is open, or NoTopic
    notes,          \* text shown on the notes page, or NoNotes
    loading,        \* the notes page shows its spinner
    notesPending,   \* generateStudyNotes calls of the mounted view in flight
    \* --- chat view (ChatView) ---
    messages,       \* the displayed message list
    chatLoading,    \* ChatView's loading flag
    chatSessionRef, \* chatSessionRef.current: number of the chat session, 0 for null
    sends,          \* sendMessage calls in flight
    \* --- speech of a view (StudyView, ChatView) ---
    speechMounted,  \* the view that owns the speech is mounted
    speechRequests, \* generateSpeech calls in flight
    playback,       \* what the device plays
    isSpeaking,
    isPaused,
    audioLoading,
    voiceType       \* voiceSettings.type

vars == <<resps, genOp, genResult, join, appState, selectedSubject, session, simMode,
          simSubject, pending, crashed, mounted, currentQuestionIndex, answers,
          timeLeft, timerOn, mountSession, completions, handedOver, stats,
          selectedTopic, notes, loading, notesPending,
          messages, chatLoading, chatSessionRef, sends,
          speechMounted, speechRequests, playback, isSpeaking, isPaused,
          audioLoading, voiceType>>

genVars == <<resps, genOp, genResult, join>>
appVars == <<appState, selectedSubject, session, simMode, simSubject, pending, crashed>>
runnerVars == <<mounted, currentQuestionIndex, answers, timeLeft, timerOn,
                mountSession, completions, handedOver>>
studyVars == <<selectedTopic, notes, loading, notesPending>>
chatVars == <<messages, chatLoading, chatSessionRef, sends>>
speechVars == <<speechMounted, speechRequests, playback, isSpeaking, isPaused,
                audioLoading, voiceType>>
viewVars == <<studyVars, chatVars, speechVars>>

-----------------------------------------------------------------------------
(* Bounds of the model *)

\* longest arbitrary JSON array a service reply carries
MaxRespLen == 1
\* largest identifier the service puts on a question
MaxRawId == 2

(* Program constants *)

\* count requested by generateNMTQuestions
QuickCount == 5
\* count requested per core subject by generateNMTSimulation
SimCount == 8
\* batch size of generateSubjectSimulation
batchSize == 8
\* number of batches of generateSubjectSimulation
totalBatches == 4
\* count requested by generateTopicQuiz
TopicCount == 10
\* number of answer options the response schema asks for
NumOptions == 4

-----------------------------------------------------------------------------
(* Types *)

Subject == {"MATH", "UKRAINIAN", "HISTORY", "ENGLISH", "PHYSICS", "BIOLOGY", "CHEMISTRY"}

\* q.subject of a service element that carries no subject property
NoTag == "none"

\* core subjects of the mixed simulation, in request order
subjectsToFetch ==
    << [name |-> "UKRAINIAN", count |-> SimCount],
       [name |-> "HISTORY",   count |-> SimCount],
       [name |-> "ENGLISH",   count |-> SimCount],
       [name |-> "MATH",      count |-> SimCount] >>

\* A question as the code handles it: the fields the logic reads.
\* nopt is options.length; missing holds the names of the required properties
\* (id, text, options, correctIndex, explanation) the object does not have.
Question(i, c, n, s) ==
    [id |-> i, correctIndex |-> c, nopt |-> n, subject |-> s, missing |-> {}]

\* the object q without the properties named in fields
Lacking(q, fields) == [q EXCEPT !.missing = fields]

-----------------------------------------------------------------------------
(* The external generation service: what one generateContent call can give *)

\* generateContent rejected (network or service error)
RespError == [kind |-> "error", items |-> <<>>]
\* response.text is undefined or ""
RespNoText == [kind |-> "notext", items |-> <<>>]
\* response.text is not well-formed JSON
RespMalformed == [kind |-> "malformed", items |-> <<>>]
\* response.text is well-formed JSON that is no array (null, an object, a number)
RespNonArray == [kind |-> "nonarray", items |-> <<>>]
\* response.text is a JSON array of question objects
RespArray(items) == [kind |-> "array", items |-> items]

\* correctIndex of the sample element numbered i: inside the options, below
\* them, above them
RawCorrect(i) == IF i % 3 = 1 THEN 0 ELSE IF i % 3 = 2 THEN -1 ELSE NumOptions
\* subject property of the sample element numbered i: absent, or some tag
RawTag(i) == IF i % 2 = 1 THEN NoTag ELSE "PHYSICS"

\* required properties the sample element numbered i lacks: none, or its
\* explanation
RawMissing(i) == IF i % 2 = 1 THEN {} ELSE {"explanation"}

\* elements the service may put in an array: any identifier, a correct index
\* inside or outside the options, with or without a subject property, with
\* or without all the required properties
RawQuestions ==
    { Lacking(Question(i, RawCorrect(i), NumOptions, RawTag(i)), RawMissing(i)) :
        i \in 1..MaxRawId }

ShortArrays == UNION { [1..n -> RawQuestions] : n \in 0..MaxRespLen }

\* the array the prompt asks for: n questions numbered 1..n
Compliant(n) == [i \in 1..n |-> Question(i, 0, NumOptions, NoTag)]

ServiceResponses(count) ==
    {RespError, RespNoText, RespMalformed, RespNonArray}
    \cup { RespArray(a) : a \in ShortArrays }
    \cup { RespArray(Compliant(count)), RespArray(Compliant(count + 1)) }

-----------------------------------------------------------------------------
(* The generation client *)

\* a rejected promise / a fulfilled promise carrying v
Rejected == [ok |-> FALSE, value |-> <<>>]
Fulfilled(v) == [ok |-> TRUE, value |-> v]

\* a fetch that answers a reply without text with an empty list
fetchQuestionsInternal_EmptyOnNoText(subject, count, resp) ==
    IF resp.kind = "array"
    THEN Fulfilled([i \in 1..Len(resp.items) |-> [resp.items[i] EXCEPT !.subject = subject]])
    ELSE IF resp.kind = "notext" THEN Fulfilled(<<>>)
    ELSE Rejected

\* a fetch that leaves the service's subject property on the elements
fetchQuestionsInternal_KeepTag(subject, count, resp) ==
    IF resp.kind # "array" THEN Rejected ELSE Fulfilled(resp.items)

\* a fetch that tags only the elements the service left untagged
fetchQuestionsInternal_TagWhenAbsent(subject, count, resp) ==
    IF resp.kind # "array" THEN Rejected
    ELSE Fulfilled([i \in 1..Len(resp.items) |->
            IF resp.items[i].subject = NoTag
            THEN [resp.items[i] EXCEPT !.subject = subject] ELSE resp.items[i]])

fetchQuestionsInternal(subject, count, resp) ==
    IF resp.kind = "error" THEN Rejected                 \* await throws
    ELSE IF resp.kind = "notext" THEN Rejected           \* throw new Error("No data ...")
    ELSE IF resp.kind = "malformed" THEN Rejected        \* JSON.parse throws
    ELSE IF resp.kind = "nonarray" THEN Rejected         \* rawQuestions.map is no function
    ELSE Fulfilled([i \in 1..Len(resp.items) |->
                        [resp.items[i] EXCEPT !.subject = subject]])

\* a join that keeps the fulfilled inputs and drops the rejected ones
PromiseAll_KeepFulfilled(ps) ==
    Fulfilled([i \in 1..Len(ps) |-> ps[i].value])

\* Promise.all: rejects as soon as one input rejects, else the values in input order
PromiseAll(ps) ==
    IF \E i \in 1..Len(ps) : ~ps[i].ok
    THEN Rejected
    ELSE Fulfilled([i \in 1..Len(ps) |-> ps[i].value])

RECURSIVE Flat(_)
\* Array.prototype.flat on an array of arrays
Flat(arrays) ==
    IF arrays = <<>> THEN <<>> ELSE Head(arrays) \o Flat(Tail(arrays))

\* a merge that keeps the identifiers of the service
ReIndex_Keep(qs) == qs

\* allQuestions.map((q, index) => ({...q, id: index + 1}))
ReIndex(qs) == [i \in 1..Len(qs) |-> [qs[i] EXCEPT !.id = i]]

generateNMTQuestions(subject, resp) ==
    fetchQuestionsInternal(subject, QuickCount, resp)

generateNMTSimulation(rs) ==
    LET results == PromiseAll([i \in 1..Len(subjectsToFetch) |->
                     fetchQuestionsInternal(subjectsToFetch[i].name,
                                            subjectsToFetch[i].count, rs[i])])
    IN  IF ~results.ok THEN Rejected
        ELSE Fulfilled(ReIndex(Flat(results.value)))

generateSubjectSimulation(subject, rs) ==
    LET promises == [i \in 1..totalBatches |->
                        fetchQuestionsInternal(subject, batchSize, rs[i])]
        results == PromiseAll(promises)
    IN  IF ~results.ok THEN Rejected
        ELSE LET allQuestions == Flat(results.value)
             IN  Fulfilled([i \in 1..Len(allQuestions) |->
                    [allQuestions[i] EXCEPT !.id = i, !.subject = subject]])

generateTopicQuiz(subject, resp) ==
    LET questions == fetchQuestionsInternal(subject, TopicCount, resp)
    IN  IF ~questions.ok THEN Rejected
        ELSE Fulfilled(ReIndex(questions.value))

-----------------------------------------------------------------------------
(* Values of the variables a specification does not use *)

NoSubject == "null"
\* QuizSession.subject is a title; the code only tests which words it contains
NoTitle == [kind |-> "null", subject |-> NoSubject]
NoSession == [subject |-> NoTitle, questions |-> <<>>, userAnswers |-> <<>>,
              ended |-> FALSE, timeLimit |-> 0]
NoHandover == [by |-> "none", answers |-> <<>>]
NoStats == [correctCount |-> 0, incorrectCount |-> 0, score |-> 0,
            subjectBreakdown |-> <<>>]
NoCall == [fn |-> "none", subject |-> NoSubject]
\* no Promise.all under way
NoJoin == [state |-> "idle", values |-> <<>>, arrived |-> <<>>]

GenIdle == resps = <<>> /\ genOp = NoCall /\ genResult = Rejected /\ join = NoJoin
AppIdle ==
    /\ appState = "MENU" /\ selectedSubject = NoSubject /\ session = NoSession
    /\ simMode = "mixed" /\ simSubject = "MATH"
    /\ crashed = FALSE
RunnerIdle ==
    /\ mounted = FALSE /\ currentQuestionIndex = 0 /\ answers = <<>>
    /\ timeLeft = 0 /\ timerOn = FALSE /\ mountSession = NoSession
    /\ completions = 0 /\ handedOver = NoHandover
ResultsIdle == stats = NoStats

\* no topic / no notes: null
NoTopic == "null"
NoNotes == [kind |-> "null", topic |-> NoTopic]
\* topics of the taxonomy the user opens
StudyTopics == {"A", "B"}
NoNotesPending == [t \in StudyTopics |-> 0]
\* the state of a StudyView that has just mounted, and of none mounted
StudyIdle ==
    /\ selectedTopic = NoTopic /\ notes = NoNotes /\ loading = FALSE
    /\ notesPending = NoNotesPending
\* no ChatView mounted
ChatIdle ==
    /\ messages = <<>> /\ chatLoading = FALSE /\ chatSessionRef = 0 /\ sends = <<>>
\* nothing is played
NoPlayback == [kind |-> "none", by |-> "none"]
\* no view with speech mounted
SpeechIdle ==
    /\ speechMounted = FALSE /\ speechRequests = [fresh |-> 0, stale |-> 0]
    /\ playback = NoPlayback /\ isSpeaking = FALSE /\ isPaused = FALSE
    /\ audioLoading = FALSE /\ voiceType = "cloud"
ViewIdle == StudyIdle /\ ChatIdle /\ SpeechIdle

-----------------------------------------------------------------------------
(* The results scorer: the useMemo of ResultsView *)

\* the fixed maximum of the score scale
MaxScore == 200
\* Math.round of a NaN operand (0 / 0)
NaN == "NaN"
\* bucket of a question without subject tag
General == "GENERAL"

\* session.userAnswers[idx] === q.correctIndex; an index past the end of
\* userAnswers reads undefined, which equals no number
IsCorrect(sess, idx) ==
    /\ idx <= Len(sess.userAnswers)
    /\ sess.userAnswers[idx] = sess.questions[idx].correctIndex

\* a bucket choice without the default
BucketOf_NoDefault(q) == q.subject

\* q.subject || 'Загальні'
BucketOf(q) == IF q.subject = NoTag THEN General ELSE q.subject

\* a score that truncates instead of rounding
RoundedScore_Floor(correct, n) ==
    IF n = 0 THEN "NaN" ELSE (correct * 200) \div n

\* Math.round((correct / n) * 200); Math.round rounds halves up.  The quotient
\* is computed exactly here; in IEEE doubles the two agree for every n < 80.
RoundedScore(correct, n) ==
    IF n = 0 THEN NaN ELSE (2 * correct * MaxScore + n) \div (2 * n)

RECURSIVE ForEachQuestion(_, _, _, _)
\* session.questions.forEach((q, idx) => ...) from position idx on
ForEachQuestion(sess, idx, correct, breakdown) ==
    IF idx > Len(sess.questions)
    THEN [correct |-> correct, breakdown |-> breakdown]
    ELSE LET isCorrect == IsCorrect(sess, idx)
             subj == BucketOf(sess.questions[idx])
             b0 == IF subj \in DOMAIN breakdown THEN breakdown
                   ELSE breakdown @@ (subj :> [total |-> 0, correct |-> 0])
             b1 == [b0 EXCEPT ![subj] =
                        [total |-> @.total + 1,
                         correct |-> IF isCorrect THEN @.correct + 1 ELSE @.correct]]
         IN  ForEachQuestion(sess, idx + 1,
                             IF isCorrect THEN correct + 1 ELSE correct, b1)

ResultsViewScoring(sess) ==
    LET r == ForEachQuestion(sess, 1, 0, <<>>)
    IN  [correctCount |-> r.correct,
         incorrectCount |-> Len(sess.questions) - r.correct,
         score |-> RoundedScore(r.correct, Len(sess.questions)),
         subjectBreakdown |-> r.breakdown]

\* Object.keys(subjectBreakdown).length > 1
hasMultipleSubjects(st) == Cardinality(DOMAIN st.subjectBreakdown) > 1

-----------------------------------------------------------------------------
(* Spec: the controller (App), its in-flight generation requests, the quiz   *)
(* runner it mounts and the results view it shows                             *)

\* most questions a generated session holds in this specification
MaxQuestions == 2
\* QuizSession.timeLimit, in ticks (the code: 20, 60 or 15 minutes of seconds)
MaxTime == 2
\* most generation requests in flight at once
MaxInFlight == 2

\* subjects the user picks in this specification
QuizSubjects == {"MATH"}
SimSubjects == {"MATH"}
TopicSubjects == {"HISTORY"}

\* sample element number i of a reply
RawQ(i) == Lacking(Question(i, RawCorrect(i), NumOptions, RawTag(i)), RawMissing(i))
\* the array of the first n sample elements, each with k options
SampleArray(n, k) == [i \in 1..n |-> [RawQ(i) EXCEPT !.nopt = k]]

\* replies of the service in this specification: a failure, or an array of
\* sample elements with one option each; a batch of a simulation holds at
\* most one element
AppResponses(req) ==
    {RespError} \cup
    { RespArray(SampleArray(n, 1)) :
        n \in 0..(IF req.fn = "startSimulation" THEN 1 ELSE MaxQuestions) }

\* the titles startQuiz, startSimulation and startTopicQuiz give a session
TitleQuick(subject) == [kind |-> "quick", subject |-> subject]
TitleMixed == [kind |-> "mixed", subject |-> NoSubject]
TitleSubjectSim(subject) == [kind |-> "subjectsim", subject |-> subject]
TitleTopic == [kind |-> "topic", subject |-> NoSubject]

\* title.includes("Симуляція")
IncludesSimulation(title) == title.kind \in {"mixed", "subjectsim"}
\* title.includes("Тест по темі")
IncludesTopicTest(title) == title.kind = "topic"

\* an in-flight call of startQuiz / startSimulation / startTopicQuiz with the
\* values its closure captured
ReqQuiz(subject) == [fn |-> "startQuiz", mode |-> "-", subject |-> subject]
ReqSim(mode, subject) ==
    [fn |-> "startSimulation", mode |-> mode,
     subject |-> IF mode = "mixed" THEN NoSubject ELSE subject]
ReqTopic(subject) == [fn |-> "startTopicQuiz", mode |-> "-", subject |-> subject]

Requests ==
    { ReqQuiz(x) : x \in QuizSubjects }
    \cup { ReqSim("mixed", NoSubject) }
    \cup { ReqSim("subject", x) : x \in SimSubjects }
    \cup { ReqTopic(x) : x \in TopicSubjects }

RECURSIVE SumOver(_, _)
SumOver(f, S) ==
    IF S = {} THEN 0
    ELSE LET x == CHOOSE y \in S : TRUE IN f[x] + SumOver(f, S \ {x})

\* number of requests in flight
PendingCount == SumOver(pending, Requests)

NoPending == [r \in Requests |-> 0]

\* number of service replies a request waits for
NumReplies(req) == IF req.fn = "startSimulation" THEN totalBatches ELSE 1

\* what the awaited generation call of a request settles with
Settle(req, rs) ==
    IF req.fn = "startQuiz" THEN generateNMTQuestions(req.subject, rs[1])
    ELSE IF req.fn = "startTopicQuiz" THEN generateTopicQuiz(req.subject, rs[1])
    ELSE IF req.mode = "mixed" THEN generateNMTSimulation(rs)
    ELSE generateSubjectSimulation(req.subject, rs)

\* the outcomes of a request in this specification
SettleOutcomes ==
    [req \in Requests |->
        { out \in { Settle(req, rs) : rs \in [1..NumReplies(req) -> AppResponses(req)] } :
            out.ok => Len(out.value) <= MaxQuestions }]

\* the title of the session a request creates
TitleOf(req) ==
    IF req.fn = "startQuiz" THEN TitleQuick(req.subject)
    ELSE IF req.fn = "startTopicQuiz" THEN TitleTopic
    ELSE IF req.mode = "mixed" THEN TitleMixed
    ELSE TitleSubjectSim(req.subject)

NewSession(title, questions) ==
    [subject |-> title, questions |-> questions, userAnswers |-> <<>>,
     ended |-> FALSE, timeLimit |-> MaxTime]

(* ---- the quiz runner ---- *)

\* an empty slot of the answers array, or an index past its end: reads undefined
Hole == -2

\* new Array(session.questions.length).fill(-1)
InitialAnswers(sess) == [i \in 1..Len(sess.questions) |-> -1]

\* answers[i], i counted from 0
AnswerAt(a, i) == IF i + 1 <= Len(a) THEN a[i + 1] ELSE Hole

\* const newAnswers = [...answers]; newAnswers[i] = o
SetAnswer(a, i, o) ==
    [k \in 1..(IF i + 1 > Len(a) THEN i + 1 ELSE Len(a)) |->
        IF k = i + 1 THEN o ELSE IF k <= Len(a) THEN a[k] ELSE Hole]

\* session.subject.includes("Симуляція"), of the session prop of the last render
isSimulation == IncludesSimulation(session.subject)

\* an updater that tests prev <= 0
TimerUpdater_LateZero(prev) ==
    IF prev <= 0 THEN [next |-> 0, finish |-> TRUE]
    ELSE [next |-> prev - 1, finish |-> FALSE]

\* the body of the setTimeLeft updater: the next timeLeft, and whether it
\* clears the interval and calls handleFinish
TimerUpdater(prev) ==
    IF prev <= 1 THEN [next |-> 0, finish |-> TRUE]
    ELSE [next |-> prev - 1, finish |-> FALSE]

\* the answers the interval callback's handleFinish hands over: the callback was
\* created by the mount effect and closes over the first render's answers
TimerAnswers == InitialAnswers(mountSession)

\* the answers the finish button's handleFinish hands over
FinishAnswers == answers

\* a selection that never locks
SelectOption_NoLock(a, i, o, simulation) == SetAnswer(a, i, o)

\* what handleSelectOption(o) leaves in answers
SelectOption(a, i, o, simulation) ==
    IF ~simulation /\ AnswerAt(a, i) # -1 THEN a ELSE SetAnswer(a, i, o)

(* ---- rendering: which view the new state mounts ---- *)

\* an unmount that leaves the interval registered
RunnerReset_KeepTimer ==
    /\ mounted' = FALSE /\ currentQuestionIndex' = 0 /\ answers' = <<>>
    /\ timeLeft' = timeLeft /\ timerOn' = timerOn /\ mountSession' = NoSession
    /\ completions' = 0 /\ handedOver' = NoHandover

RunnerReset ==
    /\ mounted' = FALSE /\ currentQuestionIndex' = 0 /\ answers' = <<>>
    /\ timeLeft' = 0 /\ timerOn' = FALSE /\ mountSession' = NoSession
    /\ completions' = 0 /\ handedOver' = NoHandover

\* The state after setAppState(a) / setSession(sess) and the render that follows:
\* QuizRunner is rendered iff appState is QUIZ and session is non-null; it keeps
\* its state while it stays rendered; its render throws when
\* session.questions[currentQuestionIndex] is undefined, which removes the tree
Commit(a, sess) ==
    LET want == a = "QUIZ" /\ sess # NoSession
        idx == IF mounted THEN currentQuestionIndex ELSE 0
        throws == want /\ idx >= Len(sess.questions)
    IN  /\ appState' = a
        /\ session' = sess
        /\ crashed' = throws
        /\ stats' = IF a = "RESULTS" /\ sess # NoSession
                    THEN ResultsViewScoring(sess) ELSE NoStats
        /\ IF throws \/ ~want THEN RunnerReset
           ELSE IF mounted THEN UNCHANGED runnerVars
           ELSE /\ mounted' = TRUE
                /\ currentQuestionIndex' = 0
                /\ answers' = InitialAnswers(sess)
                /\ timeLeft' = sess.timeLimit
                /\ timerOn' = TRUE
                /\ mountSession' = sess
                /\ completions' = 0
                /\ handedOver' = NoHandover

\* a completion that records the end time and leaves userAnswers as it was
handleQuizComplete_DropAnswers(sess, ans, by, tl) ==
    /\ session' = [sess EXCEPT !.ended = TRUE]
    /\ appState' = "RESULTS"
    /\ stats' = ResultsViewScoring(session')
    /\ crashed' = FALSE
    /\ mounted' = FALSE
    /\ timerOn' = FALSE
    /\ timeLeft' = tl
    /\ completions' = completions + 1
    /\ handedOver' = [by |-> by, answers |-> ans]
    /\ currentQuestionIndex' = 0
    /\ mountSession' = NoSession
    /\ UNCHANGED answers

\* handleQuizComplete(answers, endTime) of the render whose session is sess,
\* called by the mounted runner; the runner unmounts, and its last state
\* stays readable until the next view change
handleQuizComplete(sess, ans, by, tl) ==
    IF sess = NoSession
    THEN /\ timeLeft' = tl
         /\ timerOn' = (timerOn /\ by # "timer")
         /\ completions' = completions + 1
         /\ handedOver' = [by |-> by, answers |-> ans]
         /\ UNCHANGED <<appState, session, crashed, stats, mounted,
                        currentQuestionIndex, answers, mountSession>>
    ELSE /\ session' = [sess EXCEPT !.userAnswers = ans, !.ended = TRUE]
         /\ appState' = "RESULTS"
         /\ stats' = ResultsViewScoring(session')
         /\ crashed' = FALSE
         /\ mounted' = FALSE
         /\ timerOn' = FALSE
         /\ timeLeft' = tl
         /\ completions' = completions + 1
         /\ handedOver' = [by |-> by, answers |-> ans]
         /\ currentQuestionIndex' = 0
         /\ mountSession' = NoSession
         /\ UNCHANGED answers

(* ---- the controller's handlers ---- *)

Init ==
    /\ GenIdle /\ AppIdle /\ RunnerIdle /\ ResultsIdle /\ ViewIdle
    /\ pending = NoPending

\* the user can act on the page: no render has thrown
PageUsable == ~crashed

\* body of startQuiz(subject) up to its await
StartQuizCall(subject) ==
    /\ PendingCount < MaxInFlight
    /\ selectedSubject' = subject
    /\ Commit("LOADING", session)
    /\ pending' = [pending EXCEPT ![ReqQuiz(subject)] = @ + 1]
    /\ UNCHANGED <<simMode, simSubject, genVars, viewVars>>

\* body of startSimulation() up to its await
StartSimulationCall ==
    /\ PendingCount < MaxInFlight
    /\ selectedSubject' = NoSubject
    /\ Commit("LOADING", session)
    /\ pending' = [pending EXCEPT ![ReqSim(simMode, simSubject)] = @ + 1]
    /\ UNCHANGED <<simMode, simSubject, genVars, viewVars>>

ResetAppCall ==
    /\ Commit("MENU", NoSession)
    /\ selectedSubject' = NoSubject
    /\ UNCHANGED <<simMode, simSubject, pending, genVars, viewVars>>

\* a subject card of the menu
startQuiz ==
    /\ PageUsable /\ appState = "MENU"
    /\ \E subject \in QuizSubjects : StartQuizCall(subject)

\* the mode buttons of the simulation modal, which opens over the menu
setSimMode ==
    /\ PageUsable /\ appState = "MENU"
    /\ \E m \in {"mixed", "subject"} : simMode' = m
    /\ UNCHANGED <<appState, selectedSubject, session, simSubject,
                   pending, crashed, runnerVars, stats, genVars, viewVars>>

\* the start button of the simulation modal
startSimulation ==
    /\ PageUsable /\ appState = "MENU"
    /\ StartSimulationCall

\* the study card of the menu
OpenStudy ==
    /\ PageUsable /\ appState = "MENU"
    /\ Commit("STUDY", session)
    /\ UNCHANGED <<selectedSubject, simMode, simSubject, pending, genVars, viewVars>>

\* StudyView's onStartQuiz
startTopicQuiz ==
    /\ PageUsable /\ appState = "STUDY"
    /\ PendingCount < MaxInFlight
    /\ \E subject \in TopicSubjects :
         pending' = [pending EXCEPT ![ReqTopic(subject)] = @ + 1]
    /\ Commit("LOADING", session)
    /\ UNCHANGED <<selectedSubject, simMode, simSubject, genVars, viewVars>>

\* the header logo, the error screen's button, ResultsView's onHome, StudyView's onBack
resetApp ==
    /\ PageUsable
    /\ ResetAppCall

\* ResultsView's onRestart
restartQuiz ==
    /\ PageUsable /\ appState = "RESULTS" /\ session # NoSession
    /\ IF IncludesSimulation(session.subject) THEN StartSimulationCall
       ELSE IF IncludesTopicTest(session.subject) THEN ResetAppCall
       ELSE IF selectedSubject # NoSubject THEN StartQuizCall(selectedSubject)
       ELSE ResetAppCall

\* the awaited generation call of an in-flight request settles
SettleRequest ==
    /\ ~crashed
    /\ \E req \in Requests :
         /\ pending[req] > 0
         /\ \E out \in SettleOutcomes[req] :
              IF out.ok
              THEN Commit("QUIZ", NewSession(TitleOf(req), out.value))
              ELSE Commit("ERROR", session)
         /\ pending' = [pending EXCEPT ![req] = @ - 1]
    /\ UNCHANGED <<selectedSubject, simMode, simSubject, genVars, viewVars>>

(* ---- the runner's handlers ---- *)

RunnerUsable == PageUsable /\ mounted

\* the button of option optionIndex of the question shown
handleSelectOptionOf(optionIndex) ==
    /\ RunnerUsable
    /\ optionIndex \in 0..(session.questions[currentQuestionIndex + 1].nopt - 1)
    /\ answers' = SelectOption(answers, currentQuestionIndex, optionIndex, isSimulation)
    /\ UNCHANGED <<appVars, mounted, currentQuestionIndex, timeLeft, timerOn,
                   mountSession, completions, handedOver, stats, genVars, viewVars>>

handleSelectOption ==
    /\ RunnerUsable
    /\ \E optionIndex \in 0..(session.questions[currentQuestionIndex + 1].nopt - 1) :
         handleSelectOptionOf(optionIndex)

\* a next that clears the answer of the question it moves to
handleNext_Clear ==
    /\ RunnerUsable
    /\ currentQuestionIndex < Len(session.questions) - 1
    /\ currentQuestionIndex' = currentQuestionIndex + 1
    /\ answers' = SetAnswer(answers, currentQuestionIndex + 1, -1)
    /\ UNCHANGED <<appVars, mounted, timeLeft, timerOn,
                   mountSession, completions, handedOver, stats, genVars, viewVars>>

\* a next that moves on whatever question is shown
handleNext_Unguarded ==
    /\ RunnerUsable
    /\ currentQuestionIndex' = currentQuestionIndex + 1
    /\ UNCHANGED <<appVars, mounted, answers, timeLeft, timerOn,
                   mountSession, completions, handedOver, stats, genVars, viewVars>>

\* the next button is rendered unless the last question is shown
handleNext ==
    /\ RunnerUsable
    /\ currentQuestionIndex # Len(session.questions) - 1
    /\ currentQuestionIndex' =
          IF currentQuestionIndex < Len(session.questions) - 1
          THEN currentQuestionIndex + 1 ELSE currentQuestionIndex
    /\ UNCHANGED <<appVars, mounted, answers, timeLeft, timerOn,
                   mountSession, completions, handedOver, stats, genVars, viewVars>>

\* the previous button is disabled on the first question
handlePrev ==
    /\ RunnerUsable
    /\ currentQuestionIndex # 0
    /\ currentQuestionIndex' =
          IF currentQuestionIndex > 0
          THEN currentQuestionIndex - 1 ELSE currentQuestionIndex
    /\ UNCHANGED <<appVars, mounted, answers, timeLeft, timerOn,
                   mountSession, completions, handedOver, stats, genVars, viewVars>>

\* the finish button is rendered when the last question is shown
handleFinish ==
    /\ RunnerUsable
    /\ currentQuestionIndex = Len(session.questions) - 1
    /\ handleQuizComplete(session, FinishAnswers, "finish", timeLeft)
    /\ UNCHANGED <<selectedSubject, simMode, simSubject, pending, genVars, viewVars>>

\* the interval callback of the mount effect
TimerTick ==
    /\ ~crashed /\ mounted /\ timerOn
    /\ LET u == TimerUpdater(timeLeft)
       IN  IF u.finish
           THEN handleQuizComplete(mountSession, TimerAnswers, "timer", u.next)
           ELSE /\ timeLeft' = u.next
                /\ UNCHANGED <<appState, session, crashed, stats, mounted,
                               currentQuestionIndex, answers, timerOn, mountSession,
                               completions, handedOver>>
    /\ UNCHANGED <<selectedSubject, simMode, simSubject, pending, genVars, viewVars>>

Next ==
    \/ startQuiz
    \/ setSimMode
    \/ startSimulation
    \/ OpenStudy
    \/ startTopicQuiz
    \/ resetApp
    \/ restartQuiz
    \/ SettleRequest
    \/ handleSelectOption
    \/ handleNext
    \/ handlePrev
    \/ handleFinish
    \/ TimerTick

Spec == Init /\ [][Next]_vars

-----------------------------------------------------------------------------
(* SpecGen: one generation request from the controller's call to its         *)
(* continuation, the service's replies drawn from the bounded sets            *)
(* ServiceResponses                                                            *)

\* subjects the calls are made with
GenSubjects == {"MATH", "PHYSICS"}

InitGen == Init

\* startQuiz(subject) up to the settling of generateNMTQuestions
CallQuestions ==
    /\ genOp = NoCall /\ appState = "MENU"
    /\ \E subject \in GenSubjects, r \in ServiceResponses(QuickCount) :
         /\ resps' = <<r>>
         /\ genOp' = [fn |-> "generateNMTQuestions", subject |-> subject]
         /\ genResult' = generateNMTQuestions(subject, r)
         /\ selectedSubject' = subject
    /\ Commit("LOADING", session)
    /\ UNCHANGED <<simMode, simSubject, pending, join, viewVars>>

\* startSimulation() in mixed mode up to the settling of generateNMTSimulation
CallSimulation ==
    /\ genOp = NoCall /\ appState = "MENU"
    /\ \E rs \in [1..Len(subjectsToFetch) -> ServiceResponses(SimCount)] :
         /\ resps' = rs
         /\ genOp' = [fn |-> "generateNMTSimulation", subject |-> NoSubject]
         /\ genResult' = generateNMTSimulation(rs)
    /\ simMode' = "mixed"
    /\ selectedSubject' = NoSubject
    /\ Commit("LOADING", session)
    /\ UNCHANGED <<simSubject, pending, join, viewVars>>

\* startSimulation() in subject mode up to the settling of generateSubjectSimulation
CallSubjectSimulation ==
    /\ genOp = NoCall /\ appState = "MENU"
    /\ \E subject \in GenSubjects, rs \in [1..totalBatches -> ServiceResponses(batchSize)] :
         /\ resps' = rs
         /\ genOp' = [fn |-> "generateSubjectSimulation", subject |-> subject]
         /\ genResult' = generateSubjectSimulation(subject, rs)
         /\ simSubject' = subject
    /\ simMode' = "subject"
    /\ selectedSubject' = NoSubject
    /\ Commit("LOADING", session)
    /\ UNCHANGED <<pending, join, viewVars>>

\* startTopicQuiz(subject, topic) up to the settling of generateTopicQuiz
CallTopicQuiz ==
    /\ genOp = NoCall /\ appState = "MENU"
    /\ \E subject \in GenSubjects, r \in ServiceResponses(TopicCount) :
         /\ resps' = <<r>>
         /\ genOp' = [fn |-> "generateTopicQuiz", subject |-> subject]
         /\ genResult' = generateTopicQuiz(subject, r)
    /\ Commit("LOADING", session)
    /\ UNCHANGED <<selectedSubject, simMode, simSubject, pending, join, viewVars>>

\* the title the calling handler gives the session
TitleOfCall(call) ==
    IF call.fn = "generateNMTQuestions" THEN TitleQuick(call.subject)
    ELSE IF call.fn = "generateTopicQuiz" THEN TitleTopic
    ELSE IF call.fn = "generateNMTSimulation" THEN TitleMixed
    ELSE TitleSubjectSim(call.subject)

\* the rest of the calling handler: the try block after the await, or the catch
Continuation ==
    /\ genOp # NoCall /\ appState = "LOADING"
    /\ IF genResult.ok
       THEN Commit("QUIZ", NewSession(TitleOfCall(genOp), genResult.value))
       ELSE Commit("ERROR", session)
    /\ UNCHANGED <<genVars, selectedSubject, simMode, simSubject, pending, viewVars>>

NextGen ==
    \/ CallQuestions
    \/ CallSimulation
    \/ CallSubjectSimulation
    \/ CallTopicQuiz
    \/ Continuation

SpecGen == InitGen /\ [][NextGen]_vars

-----------------------------------------------------------------------------
(* SpecRunner: one quiz runner, mounted on a session the controller created, *)
(* with no other request in flight                                            *)

\* most options of a question in SpecRunner and SpecResults
MaxOptions == 2

\* the replies that give a session of n questions with MaxOptions options each
RunnerReplies(req, n) ==
    [i \in 1..NumReplies(req) |->
        IF i = 1 THEN RespArray(SampleArray(n, MaxOptions)) ELSE RespArray(<<>>)]

\* a practice session and a simulation session of every length
RunnerSessions ==
    { NewSession(TitleOf(req), Settle(req, RunnerReplies(req, n)).value) :
        req \in {ReqQuiz("MATH"), ReqSim("subject", "MATH")}, n \in 1..MaxQuestions }

InitRunner ==
    /\ GenIdle /\ ResultsIdle /\ ViewIdle
    /\ session \in RunnerSessions
    /\ appState = "QUIZ"
    /\ selectedSubject = session.subject.subject
    /\ simMode = (IF IncludesSimulation(session.subject) THEN "subject" ELSE "mixed")
    /\ simSubject = "MATH"
    /\ pending = NoPending
    /\ crashed = FALSE
    /\ mounted = TRUE
    /\ currentQuestionIndex = 0
    /\ answers = InitialAnswers(session)
    /\ timeLeft = session.timeLimit
    /\ timerOn = TRUE
    /\ mountSession = session
    /\ completions = 0
    /\ handedOver = NoHandover

NextRunner ==
    \/ handleSelectOption
    \/ handleNext
    \/ handlePrev
    \/ handleFinish
    \/ TimerTick
    \/ resetApp

SpecRunner == InitRunner /\ [][NextRunner]_vars

-----------------------------------------------------------------------------
(* SpecResults: the scorer applied to completed sessions                      *)

\* most questions of a scored session
MaxScored == 3

\* questions of the scored sessions: a correct index inside or below the
\* options, tagged or (as the Question type allows) untagged
ScoredQuestions ==
    { Question(1, 0, MaxOptions, NoTag), Question(1, 0, MaxOptions, "MATH"),
      Question(1, -1, MaxOptions, "HISTORY"), Question(1, MaxOptions - 1, MaxOptions, "MATH") }

\* answers a runner hands over for n questions: one entry per question, or
\* fewer; each -1 or an option
ScoredAnswers(n) == UNION { [1..m -> -1..(MaxOptions - 1)] : m \in 0..n }

InitResults ==
    /\ GenIdle /\ RunnerIdle /\ ResultsIdle /\ ViewIdle
    /\ appState = "RESULTS"
    /\ selectedSubject = NoSubject /\ simMode = "mixed" /\ simSubject = "MATH"
    /\ pending = NoPending /\ crashed = FALSE
    /\ \E n \in 1..MaxScored :
         \E qs \in [1..n -> ScoredQuestions], ua \in ScoredAnswers(n) :
            session = [subject |-> TitleMixed, questions |-> qs, userAnswers |-> ua,
                       ended |-> TRUE, timeLimit |-> MaxTime]

\* the render of ResultsView evaluates the useMemo
RenderResults ==
    /\ appState = "RESULTS" /\ stats = NoStats
    /\ stats' = ResultsViewScoring(session)
    /\ UNCHANGED <<genVars, appVars, runnerVars, viewVars>>

NextResults == RenderResults

SpecResults == InitResults /\ [][NextResults]_vars

-----------------------------------------------------------------------------
(* SpecJoin: generateNMTSimulation with its four sub-requests settling one   *)
(* by one, in any order                                                       *)

\* replies of the service in SpecJoin: a failure, or an array of the first n
\* sample elements
JoinResponses ==
    {RespError} \cup { RespArray(SampleArray(n, NumOptions)) : n \in 0..MaxRespLen }

\* the result array of Promise.all before any input has settled
NoValues(n) == [i \in 1..n |-> [set |-> FALSE, value |-> <<>>]]

\* a join that collects the values in the order of arrival
StoreResult_Arrival(values, i, v) ==
    LET k == CHOOSE j \in 1..Len(values) :
                 ~values[j].set /\ \A h \in 1..(j - 1) : values[h].set
    IN  [values EXCEPT ![k] = [set |-> TRUE, value |-> v]]

\* Promise.all stores the value of its i-th input at index i of its result
StoreResult(values, i, v) == [values EXCEPT ![i] = [set |-> TRUE, value |-> v]]

\* the promise of sub-request i of the mixed simulation
SubRequest(i) ==
    fetchQuestionsInternal(subjectsToFetch[i].name, subjectsToFetch[i].count, resps[i])

InitJoin == Init

\* startSimulation() in mixed mode up to the await of generateNMTSimulation:
\* the four sub-requests are issued in the order of subjectsToFetch
IssueSimulation ==
    /\ genOp = NoCall /\ appState = "MENU"
    /\ \E rs \in [1..Len(subjectsToFetch) -> JoinResponses] : resps' = rs
    /\ genOp' = [fn |-> "generateNMTSimulation", subject |-> NoSubject]
    /\ join' = [state |-> "pending", values |-> NoValues(Len(subjectsToFetch)),
                arrived |-> <<>>]
    /\ simMode' = "mixed"
    /\ selectedSubject' = NoSubject
    /\ Commit("LOADING", session)
    /\ UNCHANGED <<genResult, simSubject, pending, viewVars>>

\* sub-request i settles: Promise.all rejects with the first rejection, stores
\* a value at the input's index, and fulfils when every input has fulfilled;
\* generateNMTSimulation then flattens and re-numbers
SubRequestSettles(i) ==
    /\ join.state # "idle"
    /\ \A k \in 1..Len(join.arrived) : join.arrived[k] # i
    /\ LET p == SubRequest(i)
           arrived == Append(join.arrived, i)
           values == IF join.state = "pending" /\ p.ok
                     THEN StoreResult(join.values, i, p.value) ELSE join.values
           state == IF join.state # "pending" THEN join.state
                    ELSE IF ~p.ok THEN "rejected"
                    ELSE IF \A k \in 1..Len(values) : values[k].set THEN "fulfilled"
                    ELSE "pending"
       IN  /\ join' = [state |-> state, values |-> values, arrived |-> arrived]
           /\ genResult' =
                 IF join.state = "pending" /\ state = "fulfilled"
                 THEN Fulfilled(ReIndex(Flat([k \in 1..Len(values) |-> values[k].value])))
                 ELSE genResult
    /\ UNCHANGED <<resps, genOp, appVars, runnerVars, stats, viewVars>>

SubRequestSettlesAny == \E i \in 1..Len(subjectsToFetch) : SubRequestSettles(i)

\* the rest of startSimulation once the awaited call has settled
JoinContinuation ==
    /\ join.state \in {"fulfilled", "rejected"}
    /\ Continuation

NextJoin ==
    \/ IssueSimulation
    \/ SubRequestSettlesAny
    \/ JoinContinuation

SpecJoin == InitJoin /\ [][NextJoin]_vars

-----------------------------------------------------------------------------
(* SpecStudy: the study view, its notes requests in flight, and the          *)
(* generateStudyNotes calls they make                                         *)

\* most generateStudyNotes calls in flight at once
MaxNotesInFlight == 2

\* what generateContent gives a notes request: a rejection, a response
\* without text, a response with text
NotesError == [kind |-> "error"]
NotesNoText == [kind |-> "notext"]
NotesText == [kind |-> "text"]
NotesResponses == {NotesError, NotesNoText, NotesText}

\* the text the service wrote about a topic
NotesFor(topic) == [kind |-> "notes", topic |-> topic]
\* "Не вдалося згенерувати конспект. Спробуйте ще раз."
FallbackNotes == [kind |-> "fallback", topic |-> NoTopic]
\* "Вибачте, сталася помилка при генерації конспекту. Спробуйте пізніше."
ApologyNotes == [kind |-> "apology", topic |-> NoTopic]

\* a notes call that rejects on a response without text
generateStudyNotes_ThrowOnNoText(topic, resp) ==
    IF resp.kind = "text" THEN Fulfilled(NotesFor(topic)) ELSE Rejected

generateStudyNotes(topic, resp) ==
    IF resp.kind = "error" THEN Rejected                       \* catch: throw error
    ELSE IF resp.kind = "notext" THEN Fulfilled(FallbackNotes) \* response.text || "..."
    ELSE Fulfilled(NotesFor(topic))

NotesInFlight == SumOver(notesPending, StudyTopics)

InitStudy == Init

\* a topic of the list: handleTopicSelect(subject, topic) up to its await
handleTopicSelect ==
    /\ PageUsable /\ appState = "STUDY"
    /\ selectedTopic = NoTopic
    /\ NotesInFlight < MaxNotesInFlight
    /\ \E topic \in StudyTopics :
         /\ selectedTopic' = topic
         /\ notesPending' = [notesPending EXCEPT ![topic] = @ + 1]
    /\ loading' = TRUE
    /\ notes' = NoNotes
    /\ UNCHANGED <<genVars, appVars, runnerVars, stats, chatVars, speechVars>>

\* the back button of the notes page
clearSelection ==
    /\ PageUsable /\ appState = "STUDY"
    /\ selectedTopic # NoTopic
    /\ selectedTopic' = NoTopic
    /\ notes' = NoNotes
    /\ UNCHANGED <<loading, notesPending, genVars, appVars, runnerVars, stats, chatVars, speechVars>>

\* the awaited generateStudyNotes call of a handleTopicSelect settles: the
\* rest of the try block, or the catch, and the finally
NotesSettle ==
    /\ appState = "STUDY"
    /\ \E topic \in StudyTopics, reply \in NotesResponses :
         /\ notesPending[topic] > 0
         /\ LET content == generateStudyNotes(topic, reply)
            IN  /\ notes' = IF content.ok THEN content.value ELSE ApologyNotes
                /\ genResult' = content
         /\ resps' = <<reply>>
         /\ genOp' = [fn |-> "generateStudyNotes", subject |-> topic]
         /\ notesPending' = [notesPending EXCEPT ![topic] = @ - 1]
    /\ loading' = FALSE
    /\ UNCHANGED <<selectedTopic, join, appVars, runnerVars, stats, chatVars, speechVars>>

\* StudyView's onBack: resetApp, which unmounts the view; the calls still in
\* flight then only set the state of an unmounted component, to no effect
StudyBack ==
    /\ PageUsable /\ appState = "STUDY"
    /\ Commit("MENU", NoSession)
    /\ selectedSubject' = NoSubject
    /\ selectedTopic' = NoTopic /\ notes' = NoNotes /\ loading' = FALSE
    /\ notesPending' = NoNotesPending
    /\ UNCHANGED <<simMode, simSubject, pending, genVars, chatVars, speechVars>>

NextStudy ==
    \/ OpenStudy
    \/ handleTopicSelect
    \/ clearSelection
    \/ NotesSettle
    \/ StudyBack

SpecStudy == InitStudy /\ [][NextStudy]_vars

-----------------------------------------------------------------------------
(* SpecChat: the chat view, its chat session objects and its sendMessage     *)
(* calls in flight                                                            *)

\* most messages in the displayed list
MaxMessages == 8
\* most chat session objects created
MaxChatSessions == 3

\* a displayed message; chat is the number of the chat session object the
\* message was sent on or answered by (0 for the view's own fixed texts)
Message(role, kind, chat) == [role |-> role, kind |-> kind, chat |-> chat]
\* the greeting of a new view, and the greeting handleClear leaves
Greeting == Message("model", "greeting", 0)
ClearedGreeting == Message("model", "cleared", 0)

\* what sendMessage gives: a rejection, a response without text, a response
\* with text
ChatReplies == {"error", "notext", "text"}

InitChat ==
    /\ GenIdle /\ AppIdle /\ RunnerIdle /\ ResultsIdle /\ StudyIdle /\ SpeechIdle
    /\ pending = NoPending
    /\ messages = <<Greeting>>
    /\ chatLoading = FALSE
    /\ chatSessionRef = 0
    /\ sends = <<>>

\* a send that does not look at loading
handleSend_WhileLoading ==
    /\ Len(messages) + 2 <= MaxMessages
    /\ LET chat == IF chatSessionRef = 0 THEN 1 ELSE chatSessionRef
       IN  /\ chatSessionRef' = chat
           /\ messages' = Append(messages, Message("user", "text", chat))
           /\ sends' = Append(sends, chat)
    /\ chatLoading' = TRUE
    /\ UNCHANGED <<genVars, appVars, runnerVars, stats, studyVars, speechVars>>

\* handleSend up to its await: the input holds text and loading is false
handleSend ==
    /\ ~chatLoading
    /\ Len(messages) + 2 <= MaxMessages
    /\ LET chat == IF chatSessionRef = 0 THEN 1 ELSE chatSessionRef
       IN  /\ chatSessionRef' = chat
           /\ messages' = Append(messages, Message("user", "text", chat))
           /\ sends' = Append(sends, chat)
    /\ chatLoading' = TRUE
    /\ UNCHANGED <<genVars, appVars, runnerVars, stats, studyVars, speechVars>>

\* the eraser button: a new chat session object and the fixed greeting
handleClear ==
    /\ chatSessionRef < MaxChatSessions
    /\ chatSessionRef' = chatSessionRef + 1
    /\ messages' = <<ClearedGreeting>>
    /\ UNCHANGED <<chatLoading, sends, genVars, appVars, runnerVars, stats, studyVars, speechVars>>

\* the awaited sendMessage of a handleSend settles: the rest of the try
\* block, or the catch, and the finally
SendSettles ==
    /\ \E k \in 1..Len(sends), reply \in ChatReplies :
         /\ messages' = Append(messages,
               Message("model", IF reply = "text" THEN "reply" ELSE "error", sends[k]))
         /\ sends' = [j \in 1..(Len(sends) - 1) |-> IF j < k THEN sends[j] ELSE sends[j + 1]]
    /\ chatLoading' = FALSE
    /\ UNCHANGED <<chatSessionRef, genVars, appVars, runnerVars, stats, studyVars, speechVars>>

NextChat ==
    \/ handleSend
    \/ handleClear
    \/ SendSettles

SpecChat == InitChat /\ [][NextChat]_vars

-----------------------------------------------------------------------------
(* SpecSpeech: the speech of a view (StudyView and ChatView hold the same     *)
(* code), its generateSpeech calls in flight and what the device plays        *)

\* most generateSpeech calls in flight at once
MaxSpeechInFlight == 4

\* a view with a text to read has mounted; a generateSpeech call in flight is
\* counted as fresh, and as stale from a stopSpeaking or the unmount on until
\* the user triggers speakText again
InitSpeech ==
    /\ GenIdle /\ AppIdle /\ RunnerIdle /\ ResultsIdle /\ StudyIdle /\ ChatIdle
    /\ pending = NoPending
    /\ speechMounted = TRUE
    /\ speechRequests = [fresh |-> 0, stale |-> 0]
    /\ playback = NoPlayback
    /\ isSpeaking = FALSE
    /\ isPaused = FALSE
    /\ audioLoading = FALSE
    /\ voiceType = "cloud"

\* the voice the user picks in the settings panel
setVoiceSettings ==
    /\ speechMounted
    /\ \E type \in {"cloud", "system"} : voiceType' = type
    /\ UNCHANGED <<speechMounted, speechRequests, playback, isSpeaking, isPaused,
                   audioLoading, genVars, appVars, runnerVars, stats, studyVars, chatVars>>

\* the listen button: speakText up to its await (cloud voice) or to its end
\* (system voice); it begins with stopSpeaking, which ends what is played and
\* leaves the calls in flight
speakText ==
    /\ speechMounted
    /\ speechRequests.fresh + speechRequests.stale < MaxSpeechInFlight
    /\ LET inFlight == speechRequests.fresh + speechRequests.stale
       IN  IF voiceType = "cloud"
           THEN /\ speechRequests' = [fresh |-> inFlight + 1, stale |-> 0]
                /\ playback' = NoPlayback
                /\ isSpeaking' = FALSE
                /\ audioLoading' = TRUE
           ELSE /\ speechRequests' = [fresh |-> inFlight, stale |-> 0]
                /\ playback' = [kind |-> "system", by |-> "user"]
                /\ isSpeaking' = TRUE
                /\ audioLoading' = FALSE
    /\ isPaused' = FALSE
    /\ UNCHANGED <<speechMounted, voiceType, genVars, appVars, runnerVars, stats,
                   studyVars, chatVars>>

\* stopSpeaking, called by the stop button, clearSelection, handleTopicSelect,
\* handleSend and handleClear
stopSpeaking ==
    /\ speechMounted
    /\ speechRequests' = [fresh |-> 0, stale |-> speechRequests.fresh + speechRequests.stale]
    /\ playback' = NoPlayback
    /\ isSpeaking' = FALSE
    /\ isPaused' = FALSE
    /\ audioLoading' = FALSE
    /\ UNCHANGED <<speechMounted, voiceType, genVars, appVars, runnerVars, stats,
                   studyVars, chatVars>>

\* the pause button, shown while isSpeaking: it suspends or resumes the audio
\* context (cloud voice) or the synthesis (system voice)
togglePause ==
    /\ speechMounted /\ isSpeaking
    /\ playback.kind = voiceType
    /\ isPaused' = ~isPaused
    /\ UNCHANGED <<speechMounted, speechRequests, playback, isSpeaking, audioLoading,
                   voiceType, genVars, appVars, runnerVars, stats, studyVars, chatVars>>

\* the cleanup of the mount effect: stopSpeaking, then audioContext.close()
SpeechUnmount ==
    /\ speechMounted
    /\ speechMounted' = FALSE
    /\ speechRequests' = [fresh |-> 0, stale |-> speechRequests.fresh + speechRequests.stale]
    /\ playback' = NoPlayback
    /\ isSpeaking' = FALSE
    /\ isPaused' = FALSE
    /\ audioLoading' = FALSE
    /\ UNCHANGED <<voiceType, genVars, appVars, runnerVars, stats, studyVars, chatVars>>

\* the awaited generateSpeech of a speakText settles: playPcmAudio on the
\* audio it returned (a closed audio context plays nothing), or the catch
\* with speakSystemText on window.speechSynthesis; then the finally
SpeechSettles ==
    /\ \E tag \in {"fresh", "stale"}, ok \in BOOLEAN :
         /\ speechRequests[tag] > 0
         /\ speechRequests' = [speechRequests EXCEPT ![tag] = @ - 1]
         /\ IF ok
            THEN IF speechMounted
                 THEN /\ playback' = [kind |-> "cloud", by |-> tag]
                      /\ isSpeaking' = TRUE
                      /\ isPaused' = FALSE
                 ELSE UNCHANGED <<playback, isSpeaking, isPaused>>
            ELSE /\ playback' = [kind |-> "system", by |-> tag]
                 /\ isSpeaking' = speechMounted
                 /\ isPaused' = FALSE
    /\ audioLoading' = FALSE
    /\ UNCHANGED <<speechMounted, voiceType, genVars, appVars, runnerVars, stats,
                   studyVars, chatVars>>

\* source.onended / utterance.onend
PlaybackEnds ==
    /\ playback # NoPlayback /\ ~isPaused
    /\ playback' = NoPlayback
    /\ isSpeaking' = FALSE
    /\ UNCHANGED <<speechMounted, speechRequests, isPaused, audioLoading, voiceType,
                   genVars, appVars, runnerVars, stats, studyVars, chatVars>>

NextSpeech ==
    \/ setVoiceSettings
    \/ speakText
    \/ stopSpeaking
    \/ togglePause
    \/ SpeechUnmount
    \/ SpeechSettles
    \/ PlaybackEnds

SpecSpeech == InitSpeech /\ [][NextSpeech]_vars

-----------------------------------------------------------------------------
(* Properties *)

\* the sub-request answered by reply r rejects
Fails(r) == r.kind # "array"

BatchedCall == genOp.fn \in {"generateNMTSimulation", "generateSubjectSimulation"}

\* C1: in generateNMTSimulation and generateSubjectSimulation, if any one of
\* the four parallel sub-requests rejects, the whole call rejects and returns
\* no question list, whatever the other three returned; startSimulation then
\* creates no session and the app does not enter QUIZ.
C1_AllOrNothing ==
    (BatchedCall /\ \E i \in 1..Len(resps) : Fails(resps[i]))
        => /\ ~genResult.ok
           /\ genResult.value = <<>>
           /\ session = NoSession
           /\ appState \in {"LOADING", "ERROR"}
           /\ ~mounted

\* one sub-request rejected, the other three returned questions, and the
\* handler has run its catch
C1_Witness ==
    /\ BatchedCall
    /\ appState = "ERROR"
    /\ Cardinality({i \in 1..Len(resps) : Fails(resps[i])}) = 1
    /\ \A i \in 1..Len(resps) : ~Fails(resps[i]) => Len(resps[i].items) > 0

ReindexingCall ==
    genOp.fn \in {"generateNMTSimulation", "generateSubjectSimulation", "generateTopicQuiz"}

\* C2: every successful result of generateNMTSimulation,
\* generateSubjectSimulation and generateTopicQuiz carries the identifiers
\* 1, 2, ..., N in list order, whatever identifiers the service sent.
C2_ContiguousIds ==
    (ReindexingCall /\ genResult.ok)
        => \A i \in 1..Len(genResult.value) : genResult.value[i].id = i

\* a successful mixed simulation whose four replies all numbered their
\* question MaxRawId
C2_Witness ==
    /\ genOp.fn = "generateNMTSimulation" /\ genResult.ok
    /\ Len(genResult.value) = Len(subjectsToFetch)
    /\ \A i \in 1..Len(resps) :
          Len(resps[i].items) = 1 /\ resps[i].items[1].id = MaxRawId

\* C3: every successful call of generateNMTSimulation returns exactly 32
\* questions (four sub-counts of 8), whatever the four replies hold.
C3_AlwaysThirtyTwo ==
    (genOp.fn = "generateNMTSimulation" /\ genResult.ok)
        => Len(genResult.value) = Len(subjectsToFetch) * SimCount

\* C4: when the countdown reaches zero, the answers handed to onComplete are
\* the answers accumulated in the runner: for every question the option last
\* selected, or -1.
C4_TimerHandsOverAnswers ==
    handedOver.by = "timer" => handedOver.answers = answers

\* C5: a runner started with time limit T loses one unit of timeLeft per tick
\* and calls onComplete exactly once, when the countdown reaches zero; no tick
\* runs after zero, and timeLeft never goes below 0.
C5_TimerOnce ==
    /\ [](/\ completions <= 1
          /\ timeLeft >= 0
          /\ (mounted /\ timeLeft = 0) => ~timerOn
          /\ handedOver.by = "timer" => (timeLeft = 0 /\ completions = 1))
    /\ [][TimerTick =>
            /\ timeLeft' = timeLeft - 1
            /\ (timeLeft' = 0) <=> (completions' = completions + 1)
            /\ (timeLeft' # 0) => (completions' = completions)]_vars

\* the countdown ran from MaxTime to zero and completed the run
C5_Witness ==
    /\ handedOver.by = "timer" /\ completions = 1 /\ timeLeft = 0
    /\ appState = "RESULTS" /\ session.timeLimit > 1

\* C6: handleNext and handlePrev change only currentQuestionIndex: a step that
\* changes the question shown leaves the answers array, entry by entry, as it
\* was.
C6_NavigationKeepsAnswers ==
    [][(mounted /\ mounted' /\ currentQuestionIndex' # currentQuestionIndex)
          => /\ answers' = answers
             /\ UNCHANGED <<appVars, timeLeft, timerOn, mountSession, completions,
                            handedOver, stats>>]_vars

\* the user went back to the first question with answers recorded for
\* the first two
C6_Witness ==
    /\ mounted /\ currentQuestionIndex = 0
    /\ Len(answers) >= 2 /\ answers[1] # -1 /\ answers[2] # -1

\* C7: handleSelectOption(o) on question i sets answers[i] to o exactly when
\* the session is a simulation or answers[i] is still -1; in practice mode an
\* entry that is not -1 never changes while the runner lives; no step changes
\* another entry.
C7_SelectionLock ==
    [][/\ \A o \in 0..(MaxOptions - 1) :
             handleSelectOptionOf(o) =>
                answers' = [answers EXCEPT ![currentQuestionIndex + 1] =
                               IF isSimulation \/ @ = -1 THEN o ELSE @]
       /\ (mounted /\ mounted') =>
             \A i \in 1..Len(answers) :
                 /\ (~isSimulation /\ answers[i] # -1) => answers'[i] = answers[i]
                 /\ answers'[i] # answers[i] => i = currentQuestionIndex + 1]_vars

\* a practice run that shows a question whose answer is locked, its option
\* buttons being the ones a further selection would press
C7_Witness ==
    /\ mounted /\ ~isSimulation
    /\ currentQuestionIndex = 0
    /\ answers[1] = MaxOptions - 1

\* number of questions of sess the user answered correctly
CorrectOf(sess) ==
    Cardinality({ i \in 1..Len(sess.questions) :
                    /\ i <= Len(sess.userAnswers)
                    /\ sess.userAnswers[i] = sess.questions[i].correctIndex })

\* C8: for a completed session with K of its N questions answered correctly,
\* N counting the unanswered ones, the score is K / N * 200 rounded to the
\* nearest integer, halves up.
C8_Score ==
    stats # NoStats =>
        LET n == Len(session.questions)
            k == CorrectOf(session)
        IN  /\ 2 * stats.score * n - n <= 2 * MaxScore * k
            /\ 2 * MaxScore * k < 2 * stats.score * n + n

\* one of three correct: 66.67 is shown as 67
C8_Witness ==
    /\ stats # NoStats
    /\ Len(session.questions) = 3 /\ CorrectOf(session) = 1 /\ stats.score = 67

\* questions of sess the user left unanswered
UnansweredOf(sess) ==
    { i \in 1..Len(sess.questions) :
        i > Len(sess.userAnswers) \/ sess.userAnswers[i] \in {-1, Hole} }

\* C9: the scorer never counts an unanswered question as correct: every
\* unanswered question is part of incorrectCount, and correctCount +
\* incorrectCount is the number of questions.
C9_UnansweredIncorrect ==
    (appState = "RESULTS" /\ stats # NoStats) =>
        /\ stats.incorrectCount >= Cardinality(UnansweredOf(session))
        /\ stats.correctCount + stats.incorrectCount = Len(session.questions)

RECURSIVE SumField(_, _, _)
\* sum of field f ("total" or "correct") over the buckets S of breakdown b
SumField(b, S, f) ==
    IF S = {} THEN 0
    ELSE LET x == CHOOSE y \in S : TRUE
         IN  (IF f = "total" THEN b[x].total ELSE b[x].correct) + SumField(b, S \ {x}, f)

\* C10: in the per-subject breakdown the totals of the buckets sum to the
\* number of questions and their correct counts to correctCount; an untagged
\* question is counted in the general bucket and in no other.
C10_BreakdownSums ==
    stats # NoStats =>
        LET b == stats.subjectBreakdown
            qs == session.questions
            tagged(x) == Cardinality({ i \in 1..Len(qs) : qs[i].subject = x })
        IN  /\ SumField(b, DOMAIN b, "total") = Len(qs)
            /\ SumField(b, DOMAIN b, "correct") = stats.correctCount
            /\ tagged(NoTag) = (IF General \in DOMAIN b THEN b[General].total ELSE 0)
            /\ \A x \in DOMAIN b \ {General} : b[x].total = tagged(x)

\* a scored session with untagged and tagged questions
C10_Witness ==
    /\ stats # NoStats
    /\ General \in DOMAIN stats.subjectBreakdown
    /\ Cardinality(DOMAIN stats.subjectBreakdown) >= 2
    /\ stats.correctCount >= 1

\* the distinct buckets of the questions of sess
BucketsOf(sess) == { BucketOf(sess.questions[i]) : i \in 1..Len(sess.questions) }

\* C11: the results view shows the per-subject breakdown exactly when the
\* questions of the session fall into more than one bucket (an untagged
\* question falling into the general one); for a session made by startQuiz,
\* startTopicQuiz or the single-subject startSimulation it is hidden.
C11_BreakdownShown ==
    (appState = "RESULTS" /\ stats # NoStats) =>
        /\ hasMultipleSubjects(stats) <=> (Cardinality(BucketsOf(session)) > 1)
        /\ session.subject.kind \in {"quick", "topic", "subjectsim"}
              => ~hasMultipleSubjects(stats)

\* the results of a quick test of two questions, which the service had sent
\* with two different subject properties: the breakdown is hidden
C11_Witness ==
    /\ appState = "RESULTS" /\ stats # NoStats
    /\ session.subject.kind = "quick"
    /\ Len(session.questions) = 2
    /\ ~hasMultipleSubjects(stats)

\* C12: every question of every list a call of the generation client returns
\* has its correctIndex inside its options, 0 <= correctIndex < options.length,
\* whatever array the service sent.
C12_CorrectIndexInRange ==
    genResult.ok =>
        \A i \in 1..Len(genResult.value) :
            /\ 0 <= genResult.value[i].correctIndex
            /\ genResult.value[i].correctIndex < genResult.value[i].nopt

\* number of questions sub-replies 1..i of the call hold together
JoinOffset(i) ==
    LET RECURSIVE Sum(_)
        Sum(k) == IF k = 0 THEN 0 ELSE Len(resps[k].items) + Sum(k - 1)
    IN  Sum(i)

\* C13: the list generateNMTSimulation returns is the concatenation of the
\* four sub-results in the order the requests were issued (Ukrainian, History,
\* English, Math), in whatever order the four sub-requests completed: the k-th
\* element of sub-reply i stands at position JoinOffset(i - 1) + k.
C13_IssueOrder ==
    join.state = "fulfilled" =>
        /\ genResult = generateNMTSimulation(resps)
        /\ Len(genResult.value) = JoinOffset(Len(resps))
        /\ \A i \in 1..Len(resps) : \A k \in 1..Len(resps[i].items) :
              genResult.value[JoinOffset(i - 1) + k] =
                  [resps[i].items[k] EXCEPT !.subject = subjectsToFetch[i].name,
                                            !.id = JoinOffset(i - 1) + k]

\* the four sub-requests completed in the reverse of the order they were
\* issued in, each with questions, and the call returned
C13_Witness ==
    /\ join.state = "fulfilled"
    /\ join.arrived = <<4, 3, 2, 1>>
    /\ \A i \in 1..Len(resps) : Len(resps[i].items) > 0
    /\ appState = "QUIZ"

\* reply r carries no payload (text absent or empty) or text that is not
\* well-formed JSON
NoPayloadOrMalformed(r) == r.kind \in {"notext", "malformed"}

\* C14: fetchQuestionsInternal rejects whenever the reply carries no payload
\* or text that is not well-formed JSON, and then returns no question list:
\* a call with such a reply settles rejected, and its handler creates no
\* session.
C14_NoPayloadRejects ==
    (genOp # NoCall /\ \E i \in 1..Len(resps) : NoPayloadOrMalformed(resps[i]))
        => /\ ~genResult.ok
           /\ genResult.value = <<>>
           /\ \A i \in 1..Len(resps) :
                 NoPayloadOrMalformed(resps[i]) =>
                     fetchQuestionsInternal(genOp.subject, QuickCount, resps[i]) = Rejected
           /\ session = NoSession
           /\ appState # "QUIZ"

\* generateNMTQuestions, which hands fetchQuestionsInternal's promise on, was
\* answered with an empty text and startQuiz has run its catch
C14_Witness ==
    /\ genOp.fn = "generateNMTQuestions"
    /\ resps = <<RespNoText>>
    /\ appState = "ERROR"

\* the last generateStudyNotes call that settled was answered with reply r
NotesCallAnswered(r) == genOp.fn = "generateStudyNotes" /\ resps = <<r>>

\* C15: generateStudyNotes never fails with a thrown condition: on a failed
\* request as on an empty text it returns the fallback text.
C15_NeverThrows ==
    genOp.fn = "generateStudyNotes" =>
        /\ genResult.ok
        /\ (NotesCallAnswered(NotesError) \/ NotesCallAnswered(NotesNoText))
              => genResult.value = FallbackNotes

\* C15, amended: generateStudyNotes returns the fallback text on an empty
\* text and fails with the thrown error on a failed request; handleTopicSelect
\* catches that error and shows its own apology text, so every settled call
\* ends the spinner and leaves a text on the page.
C15_FallbackOrCaught ==
    /\ [](/\ NotesCallAnswered(NotesNoText) =>
                (genResult.ok /\ genResult.value = FallbackNotes)
          /\ NotesCallAnswered(NotesError) => ~genResult.ok
          /\ NotesCallAnswered(NotesText) =>
                (genResult.ok /\ genResult.value = NotesFor(genOp.subject)))
    /\ [][NotesSettle =>
            /\ ~loading'
            /\ notes' # NoNotes
            /\ ~genResult'.ok => notes' = ApologyNotes
            /\ genResult'.ok => notes' = genResult'.value]_vars

\* a failed request, caught: the notes page of a topic shows the apology text
C15_Witness ==
    /\ NotesCallAnswered(NotesError)
    /\ selectedTopic # NoTopic
    /\ notes = ApologyNotes
    /\ ~loading

\* a step of the controller that the user takes
UserStep ==
    \/ startQuiz \/ setSimMode \/ startSimulation \/ OpenStudy \/ startTopicQuiz
    \/ resetApp \/ restartQuiz

\* C16: when a generation request started by startQuiz, startSimulation or
\* startTopicQuiz fails, the app is in ERROR with session = null, a session
\* left over from the run restartQuiz restarted included; and from ERROR the
\* only transition the user can make leads to MENU.
C16_ErrorDiscardsSession ==
    /\ [](appState = "ERROR" => session = NoSession)
    /\ [][(appState = "ERROR" /\ appState' # "ERROR" /\ UserStep)
             => appState' = "MENU"]_vars

\* C17: after resetApp, the completion of a generation request that was still
\* in flight changes nothing: while the user starts nothing new, appState
\* stays MENU and session stays null, whether the request succeeded or failed.
C17_LateCompletionIgnored ==
    [][(appState = "MENU" /\ SettleRequest)
          => (appState' = "MENU" /\ session' = NoSession)]_vars

\* C18: once a session is shown in QUIZ its question sequence never changes
\* until the session is completed or the user returns to the menu: no step
\* that stays in QUIZ, the completion of another request still in flight
\* included, changes session.questions.
C18_QuestionsFixedInQuiz ==
    [][(appState = "QUIZ" /\ session # NoSession /\ appState' = "QUIZ")
          => (session' # NoSession /\ session'.questions = session.questions)]_vars

\* C19: after handleClear the list holds the 'chat cleared' greeting followed
\* only by messages of sends made after the clear, that is, on the chat
\* session object the clear created: a reply to a send that was pending on the
\* discarded chat session is never appended.
C19_ClearedListIsFresh ==
    (Len(messages) > 0 /\ messages[1] = ClearedGreeting) =>
        \A k \in 2..Len(messages) : messages[k].chat = chatSessionRef

\* reply r is an array with an element that lacks a required property
HasIncompleteElement(r) ==
    r.kind = "array" /\ \E k \in 1..Len(r.items) : r.items[k].missing # {}

\* C20: fetchQuestionsInternal validates every element of the parsed array: a
\* reply whose array holds an element lacking one of the required properties
\* (id, text, options, correctIndex, explanation) is not returned as a
\* question list, so no call answered with such a reply succeeds and no
\* returned question lacks a property.
C20_ElementsValidated ==
    /\ (genOp # NoCall /\ \E i \in 1..Len(resps) : HasIncompleteElement(resps[i]))
          => ~genResult.ok
    /\ genResult.ok =>
          \A k \in 1..Len(genResult.value) : genResult.value[k].missing = {}

\* C21: every question fetchQuestionsInternal(subject, ...) returns carries the
\* requested subject as its tag, whatever tag the reply held; so each question
\* of a generateNMTSimulation result is tagged with the subject of the
\* sub-request that produced it, and every question of a
\* generateSubjectSimulation(subject) result with subject.
C21_RequestedSubjectTag ==
    (genOp # NoCall /\ genResult.ok) =>
        /\ \A i \in 1..Len(resps) :
              LET subject == IF genOp.fn = "generateNMTSimulation"
                             THEN subjectsToFetch[i].name ELSE genOp.subject
                  fetched == fetchQuestionsInternal(subject, QuickCount, resps[i])
              IN  /\ fetched.ok
                  /\ \A k \in 1..Len(fetched.value) :
                        /\ fetched.value[k].subject = subject
                        /\ genResult.value[JoinOffset(i - 1) + k].subject = subject
        /\ genOp.fn # "generateNMTSimulation" =>
              \A k \in 1..Len(genResult.value) :
                  genResult.value[k].subject = genOp.subject

\* a mixed simulation whose four replies each held a question the service had
\* tagged PHYSICS, returned and shown as a quiz
C21_Witness ==
    /\ genOp.fn = "generateNMTSimulation" /\ genResult.ok
    /\ \A i \in 1..Len(resps) :
          Len(resps[i].items) = 1 /\ resps[i].items[1].subject = "PHYSICS"
    /\ appState = "QUIZ"

\* C22: in the quiz runner currentQuestionIndex is always in [0, N) for a
\* session of N questions: next moves from i to i + 1 only if i < N - 1 and
\* changes nothing otherwise, previous moves from i to i - 1 only if i > 0,
\* the user's finish is offered only when i = N - 1, and the expiry of the
\* countdown completes the run from any position.
C22_IndexInRange ==
    /\ [](mounted => /\ 0 <= currentQuestionIndex
                     /\ currentQuestionIndex < Len(session.questions))
    /\ [][/\ handleNext =>
                /\ currentQuestionIndex < Len(session.questions) - 1
                /\ currentQuestionIndex' = currentQuestionIndex + 1
          /\ handlePrev =>
                /\ currentQuestionIndex > 0
                /\ currentQuestionIndex' = currentQuestionIndex - 1
          /\ (mounted /\ mounted' /\ currentQuestionIndex' # currentQuestionIndex)
                => (handleNext \/ handlePrev)
          /\ (completions' = completions + 1 /\ handedOver'.by = "finish")
                => currentQuestionIndex = Len(session.questions) - 1
          /\ (TimerTick /\ timeLeft <= 1)
                => (completions' = completions + 1 /\ handedOver'.by = "timer")]_vars

\* the countdown is about to expire while the first of two questions is
\* shown, the user having gone to the second and back
C22_Witness ==
    /\ mounted /\ timerOn /\ timeLeft = 1
    /\ Len(session.questions) = 2
    /\ currentQuestionIndex = 0
    /\ AnswerAt(answers, 1) # -1

\* C23: speech is torn down with its view: after stopSpeaking, or after the
\* view has unmounted, no playback (cloud audio or system voice) starts until
\* the user triggers speakText again; a generateSpeech call issued before the
\* stop or the unmount starts none when it resolves or fails afterwards.
C23_NoPlaybackAfterStop ==
    /\ playback.by # "stale"
    /\ ~speechMounted => playback = NoPlayback

\* C24: once the quiz runner has unmounted (the user returned to the menu, or
\* the completion was handed over) its countdown is cleared: no tick runs and
\* no completion reaches the controller while no runner is mounted, and the
\* app enters RESULTS only by the completion of the mounted runner, never for
\* a discarded session.
C24_UnmountClearsTimer ==
    /\ [](~mounted => ~timerOn)
    /\ [][/\ ~mounted =>
                /\ ~TimerTick /\ ~handleFinish
                /\ appState' = "RESULTS" => appState = "RESULTS"
                /\ ~mounted' => (timeLeft' <= timeLeft /\ completions' <= completions)
          /\ (appState' = "RESULTS" /\ appState # "RESULTS") =>
                /\ mounted /\ appState = "QUIZ"
                /\ handleFinish \/ TimerTick]_vars

\* the runner handed over its completion by the finish button with time on
\* the clock and has unmounted, a request still being in flight
C24_Witness ==
    /\ appState = "RESULTS" /\ ~mounted /\ ~timerOn
    /\ handedOver.by = "finish" /\ timeLeft > 0
    /\ PendingCount > 0

\* C25: throughout a quiz run the answers array of the runner has exactly
\* one entry per question of the session, starts as all -1, and every entry
\* is -1 or an option index of its question; handleSelectOption changes at
\* most the entry of the question shown.
C25_AnswersPerQuestion ==
    /\ [](mounted =>
            /\ Len(answers) = Len(session.questions)
            /\ \A i \in 1..Len(answers) :
                  \/ answers[i] = -1
                  \/ (i <= Len(session.questions) /\ 0 <= answers[i]
                      /\ answers[i] < session.questions[i].nopt))
    /\ [][/\ (~mounted /\ mounted') =>
                answers' = [i \in 1..Len(session'.questions) |-> -1]
          /\ handleSelectOption =>
                \A i \in 1..Len(answers) :
                    i # currentQuestionIndex + 1 => answers'[i] = answers[i]]_vars

\* C26: whenever appState is QUIZ or RESULTS the session is non-null, and
\* appState becomes RESULTS only through handleQuizComplete, called from
\* QUIZ, which stores the answers handed over and the end time in the
\* session.
C26_ResultsOnlyByCompletion ==
    /\ [](/\ appState \in {"QUIZ", "RESULTS"} => session # NoSession
          /\ appState = "RESULTS" =>
                (session.ended /\ session.userAnswers = handedOver.answers))
    /\ [][(appState' = "RESULTS" /\ appState # "RESULTS") =>
            /\ appState = "QUIZ" /\ mounted
            /\ handleFinish \/ TimerTick
            /\ completions' = completions + 1
            /\ session'.userAnswers = handedOver'.answers
            /\ session'.ended]_vars

\* a run completed by the finish button with an option selected: the
\* session shown on the results screen holds that answer and has ended
C26_Witness ==
    /\ appState = "RESULTS" /\ handedOver.by = "finish"
    /\ session.ended
    /\ Len(session.userAnswers) = Len(session.questions)
    /\ \E i \in 1..Len(session.userAnswers) : session.userAnswers[i] # -1

\* C27: whenever the results screen is shown, session.userAnswers has exactly
\* one entry per question of session.questions, under every interleaving of
\* generation completions, menu resets and quiz completion.
C27_AnswersMatchQuestions ==
    appState = "RESULTS" =>
        /\ session # NoSession
        /\ Len(session.userAnswers) = Len(session.questions)
        /\ \A i \in 1..Len(session.userAnswers) : session.userAnswers[i] # Hole

C29_NotesOfSelectedTopic ==
    (appState = "STUDY" /\ selectedTopic # NoTopic /\ notes # NoNotes) =>
        /\ genOp.fn = "generateStudyNotes"
        /\ genOp.subject = selectedTopic
        /\ notes.kind = "notes" => notes.topic = selectedTopic

\* C30: in the chat view at most one send is in flight at any time
\* (handleSend is ignored while loading), and every accepted send appends the
\* user message and then, once its request settles, exactly one model
\* message (the reply, or the fixed error text on a failure or an empty
\* reply) and resets loading to false.
C30_OneSendInFlight ==
    /\ [](/\ Len(sends) <= 1
          /\ chatLoading <=> (Len(sends) = 1))
    /\ [][/\ handleSend =>
                /\ ~chatLoading /\ chatLoading'
                /\ Len(messages') = Len(messages) + 1
                /\ messages'[Len(messages')].role = "user"
          /\ SendSettles =>
                /\ chatLoading /\ ~chatLoading'
                /\ sends' = <<>>
                /\ Len(messages') = Len(messages) + 1
                /\ messages'[Len(messages')].role = "model"
                /\ messages'[Len(messages')].kind \in {"reply", "error"}
          /\ (Len(messages') > Len(messages)) => (handleSend \/ SendSettles)]_vars

\* two sends, one answered with a reply and one with the error text, each
\* followed by its one model message
C30_Witness ==
    /\ ~chatLoading /\ sends = <<>>
    /\ messages = <<Greeting, Message("user", "text", 1), Message("model", "reply", 1),
                    Message("user", "text", 1), Message("model", "error", 1)>>

====
